---- MODULE Spec2Model ----
(***************************************************************************)
(* The geofence CRUD service: the Geofence class (Geofence.js) and the     *)
(* Express application that keeps the `geofences` array and registers the  *)
(* seven routes.                                                           *)
(*                                                                         *)
(* JavaScript values are records [t, v]: t is the type tag ("undefined",   *)
(* "null", "number", "string", "NaN") and v the value.  NaN is a number in *)
(* JavaScript; it has a tag of its own because === never holds of it.      *)
(* The tag "number" is for the integers; the number n + 0.5 has the tag    *)
(* "fraction" and the value n.                                             *)
(* A JSON object is a record over its keys in which Undefined marks a key  *)
(* the object does not carry: JSON cannot carry undefined, destructuring   *)
(* an absent key yields undefined, and JSON.stringify drops the keys whose *)
(* value is undefined.                                                     *)
(* A path segment is a sequence of one-character strings.                  *)
(***************************************************************************)
EXTENDS Integers, Sequences, FiniteSets, TLC

VARIABLES
  geofences,  \* the array `geofences` of Geofence objects
  req,        \* the request the service handled last
  res,        \* the response it gave to req
  sent,       \* how many times the handler of req called res.send
  prev,       \* the method of the request handled before req
  created,    \* the ids passed to create so far, in order, while nothing was
              \* deleted; Deleted once a delete has removed a record
  tasks,      \* per client, its request in flight and how far its handler is
  stack,      \* the client whose handler is on the call stack, or "none"
  serial,     \* the store the handlers completed so far give when each is
              \* applied whole, in the order of their completion
  heap,       \* the objects of the process, by address
  refs,       \* the array geofences as the addresses of its elements
  held        \* the address of the getDetails() result its receiver still
              \* holds, as a sequence of at most one

vars == <<geofences, req, res, sent, prev, created, tasks, stack, serial, heap, refs, held>>

\* What the service leaves alone when its records are values.
heapVars == <<heap, refs, held>>

\* What the service run one request at a time leaves alone.
concVars == <<tasks, stack, serial>>

\* What the service run with requests in flight leaves alone.
seqVars == <<req, res, sent, prev, created>>

\* The store holds at most MaxLen records: create is not offered beyond it.
MaxLen == 2

(***************************************************************************)
(* JavaScript values                                                       *)
(***************************************************************************)
Undefined == [t |-> "undefined", v |-> 0]
NaN == [t |-> "NaN", v |-> 0]
Num(n) == [t |-> "number", v |-> n]
Str(s) == [t |-> "string", v |-> s]
Null == [t |-> "null", v |-> 0]
Frac(n) == [t |-> "fraction", v |-> n]

\* a == b on the values of the model: a numeric string equals its number.
LooseEq(a, b) ==
  \/ a.t # "NaN" /\ b.t # "NaN" /\ a = b
  \/ a.t = "number" /\ b.t = "string" /\ b.v = "1" /\ a.v = 1
  \/ a.t = "string" /\ b.t = "number" /\ a.v = "1" /\ b.v = 1

\* a === b
StrictEq(a, b) == a.t # "NaN" /\ b.t # "NaN" /\ a = b

(***************************************************************************)
(* parseInt(string) with no radix, as ECMAScript defines it: leading white *)
(* space is dropped, then one sign, then a 0x/0X prefix selects radix 16,  *)
(* then the longest prefix of digits of the radix is the value; with no    *)
(* digit the result is NaN.  Whatever follows the digits is ignored.       *)
(***************************************************************************)
DecDigits == <<"0", "1", "2", "3", "4", "5", "6", "7", "8", "9">>
HexDigits == DecDigits \o <<"a", "b", "c", "d", "e", "f">>

DigitsOf(radix) == IF radix = 16 THEN HexDigits ELSE DecDigits

IsDigit(c, radix) == \E k \in 1..radix : DigitsOf(radix)[k] = c

DigitValue(c, radix) == (CHOOSE k \in 1..radix : DigitsOf(radix)[k] = c) - 1

RECURSIVE TrimStart(_)
TrimStart(s) ==
  IF s # <<>> /\ Head(s) = " " THEN TrimStart(Tail(s)) ELSE s

\* The mathematical value of the longest prefix of radix digits of s, read
\* left to right with the running value acc; seen says a digit was read.
RECURSIVE ParseDigits(_, _, _, _)
ParseDigits(s, radix, acc, seen) ==
  IF s # <<>> /\ IsDigit(Head(s), radix)
    THEN ParseDigits(Tail(s), radix, acc * radix + DigitValue(Head(s), radix), TRUE)
    ELSE [seen |-> seen, val |-> acc]

HasHexPrefix(s) == Len(s) >= 2 /\ s[1] = "0" /\ s[2] \in {"x", "X"}

\* parseFloat on the segments of the model: "1.5" is the number 1.5.
parseFloat(str) ==
  IF str = <<"1", ".", "5">> THEN Frac(1)
  ELSE IF ParseDigits(str, 10, 0, FALSE).seen
         THEN Num(ParseDigits(str, 10, 0, FALSE).val)
         ELSE NaN

parseInt(str) ==
  LET s1 == TrimStart(str)
      neg == s1 # <<>> /\ Head(s1) = "-"
      s2 == IF s1 # <<>> /\ Head(s1) \in {"+", "-"} THEN Tail(s1) ELSE s1
      hex == HasHexPrefix(s2)
      s3 == IF hex THEN Tail(Tail(s2)) ELSE s2
      radix == IF hex THEN 16 ELSE 10
      d == ParseDigits(s3, radix, 0, FALSE)
  IN IF ~d.seen THEN NaN
     ELSE Num(IF neg THEN 0 - d.val ELSE d.val)

\* String(n) for an integer n: the decimal literal a client writes in the path.
RECURSIVE NatToSeg(_)
NatToSeg(n) ==
  IF n < 10 THEN <<DecDigits[n + 1]>>
  ELSE NatToSeg(n \div 10) \o <<DecDigits[(n % 10) + 1]>>

IntToSeg(n) == IF n < 0 THEN <<"-">> \o NatToSeg(0 - n) ELSE NatToSeg(n)

(***************************************************************************)
(* Geofence.js                                                             *)
(***************************************************************************)
\* A constructor that stores the coordinates crosswise.
GeofenceSwapped(id, name, longitude, latitude) ==
  [id |-> id, name |-> name, longitude |-> latitude, latitude |-> longitude,
   _stream |-> Undefined]

\* new Geofence(id, name, longitude, latitude); the class also declares the
\* field _stream, which no method reads or writes.
Geofence(id, name, longitude, latitude) ==
  [id |-> id, name |-> name, longitude |-> longitude, latitude |-> latitude,
   _stream |-> Undefined]

getDetails(g) ==
  [id |-> g.id, name |-> g.name, longitude |-> g.longitude, latitude |-> g.latitude]

(***************************************************************************)
(* Requests and responses                                                  *)
(***************************************************************************)
\* The JSON object {}: every key absent.
EmptyBody ==
  [id |-> Undefined, name |-> Undefined, longitude |-> Undefined, latitude |-> Undefined]

Request(method, route, seg, body) ==
  [method |-> method, route |-> route, seg |-> seg, body |-> body]

NoRequest == Request("NONE", "", <<>>, EmptyBody)

\* kind is "object" or "array" (res.send of one, sent as JSON), "text"
\* (res.send of a string), "empty" (res.send()), "error" (the handler threw
\* and Express's default error handler answered) or "none" (no response yet).
Response(status, kind, body) == [status |-> status, kind |-> kind, body |-> body]

NoResponse == Response(0, "none", <<>>)

\* A not-found answer with the status of a bad request.
BadRequest == Response(400, "object", [message |-> "Geofence not found"])

NotFound == Response(404, "object", [message |-> "Geofence not found"])

\* The index of the last match instead of the first.
findLastIndex(arr, id) ==
  IF \E k \in 1..Len(arr) : StrictEq(arr[k].id, id)
    THEN (CHOOSE k \in 1..Len(arr) :
            /\ StrictEq(arr[k].id, id)
            /\ \A j \in (k + 1)..Len(arr) : ~StrictEq(arr[j].id, id)) - 1
    ELSE -1

\* Array.prototype.findIndex with the predicate g => g.id === id: the
\* 0-based index of the first match, -1 when there is none.
findIndex(arr, id) ==
  IF \E k \in 1..Len(arr) : StrictEq(arr[k].id, id)
    THEN (CHOOSE k \in 1..Len(arr) :
            /\ StrictEq(arr[k].id, id)
            /\ \A j \in 1..(k - 1) : ~StrictEq(arr[j].id, id)) - 1
    ELSE -1

\* Array.prototype.find with the same predicate: the first matching element
\* or undefined.
find(arr, id) ==
  IF findIndex(arr, id) = -1 THEN Undefined ELSE arr[findIndex(arr, id) + 1]

\* A splice that removes the last element whatever the index.
spliceLast(arr, index) == [k \in 1..(Len(arr) - 1) |-> arr[k]]

\* arr.splice(index): with no count, everything from index on is removed.
spliceFrom(arr, index) == SubSeq(arr, 1, index)

\* arr.splice(index, 1) for 0 <= index < arr.length: the array afterwards.
splice(arr, index) ==
  [k \in 1..(Len(arr) - 1) |-> IF k <= index THEN arr[k] ELSE arr[k + 1]]

\* A listing in reverse order.
mapDetailsReversed(arr) == [k \in 1..Len(arr) |-> getDetails(arr[Len(arr) + 1 - k])]

\* arr.map(g => g.getDetails())
mapDetails(arr) == [k \in 1..Len(arr) |-> getDetails(arr[k])]

(***************************************************************************)
(* The route handlers.  Each runs to completion: one action per handler.   *)
(***************************************************************************)
Deleted == <<[t |-> "deleted", v |-> 0]>>

\* The handler of request r called res.send once, with response.
Handled(r, response) ==
  /\ prev' = req.method
  /\ req' = r
  /\ res' = response
  /\ sent' = 1
  /\ UNCHANGED <<concVars, heapVars>>

\* The handler of request r threw before it called res.send; Express's
\* default error handler answers 500 with the error.
Threw(r, error) ==
  /\ prev' = req.method
  /\ req' = r
  /\ res' = Response(500, "error", error)
  /\ sent' = 0
  /\ UNCHANGED <<concVars, heapVars>>

\* app.post('/geofence')
PostGeofence(body) ==
  /\ Len(geofences) < MaxLen
  /\ LET geofence == Geofence(body.id, body.name, body.longitude, body.latitude)
     IN /\ geofences' = Append(geofences, geofence)
        /\ Handled(Request("POST", "/geofence", <<>>, body),
                   Response(201, "object", getDetails(geofence)))
  /\ created' = IF created = Deleted THEN Deleted ELSE Append(created, body.id)

\* A listing that reverses the array in place before it maps it.
GetGeofencesReversing ==
  /\ geofences' = [k \in 1..Len(geofences) |-> geofences[Len(geofences) + 1 - k]]
  /\ Handled(Request("GET", "/geofences", <<>>, EmptyBody),
             Response(200, "array", mapDetails(geofences')))
  /\ UNCHANGED created

\* app.get('/geofences')
GetGeofences ==
  /\ Handled(Request("GET", "/geofences", <<>>, EmptyBody),
             Response(200, "array", mapDetails(geofences)))
  /\ UNCHANGED <<geofences, created>>

\* app.get('/geofence/:id')
GetGeofenceById(seg) ==
  LET geofence == find(geofences, parseInt(seg))
  IN /\ Handled(Request("GET", "/geofence/:id", seg, EmptyBody),
                IF geofence # Undefined
                  THEN Response(200, "object", getDetails(geofence))
                  ELSE NotFound)
     /\ UNCHANGED <<geofences, created>>

\* Assignments that keep the stored value where the new one is undefined.
assignDefined(arr, index, name, longitude, latitude) ==
  [arr EXCEPT
     ![index + 1].name = IF name = Undefined THEN @ ELSE name,
     ![index + 1].longitude = IF longitude = Undefined THEN @ ELSE longitude,
     ![index + 1].latitude = IF latitude = Undefined THEN @ ELSE latitude]

\* Assignments that store the coordinates crosswise.
assignSwapped(arr, index, name, longitude, latitude) ==
  [arr EXCEPT ![index + 1].name = name,
              ![index + 1].longitude = latitude,
              ![index + 1].latitude = longitude]

\* The array after the assignments of lines 188-190 to the object that find
\* returned, which is the element at the 0-based position index.
assign(arr, index, name, longitude, latitude) ==
  [arr EXCEPT ![index + 1].name = name,
              ![index + 1].longitude = longitude,
              ![index + 1].latitude = latitude]

\* An update that also assigns the id key of the body.
PutGeofenceByIdWithId(seg, body) ==
  LET geofence == find(geofences, parseInt(seg))
      index == findIndex(geofences, parseInt(seg))
  IN /\ IF geofence # Undefined
          THEN /\ geofences' =
                    [assign(geofences, index, body.name, body.longitude, body.latitude)
                       EXCEPT ![index + 1].id = body.id]
               /\ Handled(Request("PUT", "/geofence/:id", seg, body),
                          Response(200, "object", getDetails(geofences'[index + 1])))
          ELSE /\ UNCHANGED geofences
               /\ Handled(Request("PUT", "/geofence/:id", seg, body), NotFound)
     /\ UNCHANGED created

\* app.put('/geofence/:id')
PutGeofenceById(seg, body) ==
  LET name == body.name
      longitude == body.longitude
      latitude == body.latitude
      geofence == find(geofences, parseInt(seg))
      index == findIndex(geofences, parseInt(seg))
  IN /\ IF geofence # Undefined
          THEN /\ geofences' = assign(geofences, index, name, longitude, latitude)
               /\ Handled(Request("PUT", "/geofence/:id", seg, body),
                          Response(200, "object", getDetails(geofences'[index + 1])))
          ELSE /\ UNCHANGED geofences
               /\ Handled(Request("PUT", "/geofence/:id", seg, body), NotFound)
     /\ UNCHANGED created

\* app.delete('/geofence/:id')
DeleteGeofenceById(seg) ==
  LET index == findIndex(geofences, parseInt(seg))
  IN IF index # -1
       THEN /\ geofences' = splice(geofences, index)
            /\ Handled(Request("DELETE", "/geofence/:id", seg, EmptyBody),
                       Response(204, "empty", <<>>))
            /\ created' = Deleted
       ELSE /\ Handled(Request("DELETE", "/geofence/:id", seg, EmptyBody), NotFound)
            /\ UNCHANGED <<geofences, created>>

\* app.get('/')
GetRoot ==
  /\ Handled(Request("GET", "/", <<>>, EmptyBody),
             Response(200, "text", "Hello, World! This is for Geofence."))
  /\ UNCHANGED <<geofences, created>>

\* app.get('/geofence'): the handler reads `geofence`, which no scope it can
\* see declares, so it throws a ReferenceError before it sends anything and
\* Express's default error handler answers 500.
GetGeofence ==
  /\ Threw(Request("GET", "/geofence", <<>>, EmptyBody),
           "ReferenceError: geofence is not defined")
  /\ UNCHANGED <<geofences, created>>

(***************************************************************************)
(* The handlers statement by statement, with several requests in flight.   *)
(* A task is a request and the position of its handler: "idle" (no         *)
(* request), "queued" (the request is parsed and the handler waits for the *)
(* event loop), the statement the handler executes next ("push", "find",   *)
(* "name", "longitude", "latitude", "splice", "send") or "done" (the       *)
(* response is sent).  ref is what the handler's local holds: for find the *)
(* object found, as its 0-based position in the array (-1 for undefined,   *)
(* -2 for an object that was spliced out since, then kept in obj); for     *)
(* findIndex the index.  Node runs one handler at a time: the event loop   *)
(* starts a handler only when the call stack is empty.                     *)
(***************************************************************************)
Clients == {"a", "b"}

IdleTask ==
  [req |-> NoRequest, pc |-> "idle", ref |-> -1, obj |-> Undefined, out |-> NoResponse]

\* The statements between the start of a handler and its response.
Mid == {"push", "find", "name", "longitude", "latitude", "splice", "send"}

\* As if the handler awaited after every statement.
YieldsEverywhere(pc) == pc \in Mid

\* Whether the handler gives the call stack back to the event loop after
\* the statement at pc: the handlers are synchronous functions without
\* await or callback, so after none.
Yields(pc) == FALSE

\* The first statement of the handler of request r.
FirstStatement(r) ==
  IF r.method = "POST" THEN "push"
  ELSE IF r.route = "/geofences" THEN "send"
  ELSE "find"

\* The object the local of task t refers to.
Deref(t) == IF t.ref = -2 THEN t.obj ELSE geofences[t.ref + 1]

\* The store after the handler of request r ran on arr as a whole.
Effect(arr, r) ==
  LET index == findIndex(arr, parseInt(r.seg))
  IN IF r.method = "POST"
       THEN Append(arr, Geofence(r.body.id, r.body.name, r.body.longitude, r.body.latitude))
     ELSE IF r.method = "PUT" /\ index # -1
       THEN assign(arr, index, r.body.name, r.body.longitude, r.body.latitude)
     ELSE IF r.method = "DELETE" /\ index # -1
       THEN splice(arr, index)
     ELSE arr

\* A request arrives from client c and its handler is queued.
Arrive(c, r) ==
  /\ tasks[c].pc = "idle"
  /\ tasks' = [tasks EXCEPT ![c] = [IdleTask EXCEPT !.req = r, !.pc = "queued"]]
  /\ UNCHANGED <<geofences, stack, serial, seqVars, heapVars>>

\* The event loop calls the handler of c's request.
Start(c) ==
  /\ stack = "none"
  /\ tasks[c].pc = "queued"
  /\ tasks[c].req.method = "POST" => Len(geofences) < MaxLen
  /\ tasks' = [tasks EXCEPT ![c].pc = FirstStatement(tasks[c].req)]
  /\ stack' = c
  /\ UNCHANGED <<geofences, serial, seqVars, heapVars>>

\* The locals of the other handlers after the element at index went: a
\* reference to it keeps the object, a reference behind it moves up; an
\* index held by a delete handler stays the number it is.
AfterSplice(t, index) ==
  IF t.pc \notin Mid \/ t.req.method = "DELETE" \/ t.ref < index THEN t
  ELSE IF t.ref = index THEN [t EXCEPT !.ref = -2, !.obj = geofences[index + 1]]
  ELSE [t EXCEPT !.ref = t.ref - 1]

\* The handler of c executes its next statement, other than the response.
Statement(c) ==
  LET t == tasks[c]
      r == t.req
      pc == t.pc
      next(p) == tasks' = [tasks EXCEPT ![c].pc = p]
  IN /\ pc \in Mid \ {"send"}
     /\ stack = c \/ (stack = "none" /\ pc # FirstStatement(r))
     /\ stack' = IF Yields(pc) THEN "none" ELSE c
     /\ UNCHANGED <<serial, seqVars, heapVars>>
     /\ IF pc = "push" THEN
          /\ geofences' = Append(geofences,
                                 Geofence(r.body.id, r.body.name, r.body.longitude,
                                          r.body.latitude))
          /\ tasks' = [tasks EXCEPT ![c].pc = "send", ![c].ref = Len(geofences)]
        ELSE IF pc = "find" THEN
          LET index == findIndex(geofences, parseInt(r.seg))
          IN /\ tasks' = [tasks EXCEPT
                            ![c].ref = index,
                            ![c].pc = IF index = -1 \/ r.method = "GET" THEN "send"
                                      ELSE IF r.method = "PUT" THEN "name"
                                      ELSE "splice"]
             /\ UNCHANGED geofences
        ELSE IF pc = "splice" THEN
          /\ geofences' = IF t.ref < Len(geofences) THEN splice(geofences, t.ref)
                          ELSE geofences
          /\ tasks' = [d \in Clients |->
                         IF d = c THEN [t EXCEPT !.pc = "send"]
                         ELSE IF t.ref < Len(geofences) THEN AfterSplice(tasks[d], t.ref)
                         ELSE tasks[d]]
        ELSE IF pc = "name" THEN
          IF t.ref = -2
            THEN /\ tasks' = [tasks EXCEPT ![c].pc = "longitude", ![c].obj.name = r.body.name]
                 /\ UNCHANGED geofences
            ELSE /\ geofences' = [geofences EXCEPT ![t.ref + 1].name = r.body.name]
                 /\ next("longitude")
        ELSE IF pc = "longitude" THEN
          IF t.ref = -2
            THEN /\ tasks' = [tasks EXCEPT ![c].pc = "latitude",
                                           ![c].obj.longitude = r.body.longitude]
                 /\ UNCHANGED geofences
            ELSE /\ geofences' = [geofences EXCEPT ![t.ref + 1].longitude = r.body.longitude]
                 /\ next("latitude")
        ELSE
          IF t.ref = -2
            THEN /\ tasks' = [tasks EXCEPT ![c].pc = "send",
                                           ![c].obj.latitude = r.body.latitude]
                 /\ UNCHANGED geofences
            ELSE /\ geofences' = [geofences EXCEPT ![t.ref + 1].latitude = r.body.latitude]
                 /\ next("send")

\* The response the handler of task t sends.
Answer(t) ==
  IF t.req.method = "POST" THEN Response(201, "object", getDetails(Deref(t)))
  ELSE IF t.req.route = "/geofences" THEN Response(200, "array", mapDetails(geofences))
  ELSE IF t.ref = -1 THEN NotFound
  ELSE IF t.req.method = "DELETE" THEN Response(204, "empty", <<>>)
  ELSE Response(200, "object", getDetails(Deref(t)))

\* The handler of c sends its response and returns.
Send(c) ==
  /\ tasks[c].pc = "send"
  /\ stack = c \/ (stack = "none" /\ FirstStatement(tasks[c].req) # "send")
  /\ tasks' = [tasks EXCEPT ![c].pc = "done", ![c].out = Answer(tasks[c])]
  /\ stack' = "none"
  /\ serial' = Effect(serial, tasks[c].req)
  /\ UNCHANGED <<geofences, seqVars, heapVars>>

\* The client has its response.
Finish(c) ==
  /\ tasks[c].pc = "done"
  /\ tasks' = [tasks EXCEPT ![c] = IdleTask]
  /\ UNCHANGED <<geofences, stack, serial, seqVars, heapVars>>

(***************************************************************************)
(* The handlers over objects with identity.  The array holds references    *)
(* to Geofence objects; getDetails() returns an object, and its receiver   *)
(* may keep it, assign to its fields, or let it go.  geofences stays the   *)
(* array read through the references.                                      *)
(***************************************************************************)
Addrs == 1..(2 * MaxLen + 1)

FreeObject ==
  [kind |-> "free", val |-> Geofence(Undefined, Undefined, Undefined, Undefined)]

Range(s) == { s[k] : k \in DOMAIN s }

FreeAddrs(h) == { a \in Addrs : h[a].kind = "free" }

\* The k-th lowest address of F.
Kth(F, k) == CHOOSE a \in F : Cardinality({ b \in F : b < a }) = k - 1

\* As if getDetails() ended in "return this".
getDetailsThis(h, this, k) == this

\* The address of the object the k-th getDetails() call of a handler
\* returns, called on the object at this: the object literal is a new
\* object.
getDetailsAt(h, this, k) == Kth(FreeAddrs(h), k)

\* The addresses getDetails() returns, called on each of srcs in turn.
Returned(h, srcs) == [k \in 1..Len(srcs) |-> getDetailsAt(h, srcs[k], k)]

\* The heap after those calls: each new object has the four fields of the
\* object it was called on.
WithDetails(h, srcs) ==
  LET at == Returned(h, srcs)
  IN [a \in Addrs |->
        IF h[a].kind = "free" /\ \E k \in 1..Len(srcs) : at[k] = a
          THEN [kind |-> "details",
                val |-> getDetails(h[srcs[CHOOSE k \in 1..Len(srcs) : at[k] = a]].val)]
          ELSE h[a]]

\* What the receiver holds after a handler returned the objects at: the
\* keep-th of them in place of what it held, or with keep = 0 what it held.
Kept(at, keep) == IF keep = 0 THEN held ELSE <<at[keep]>>

\* The state with heap h, the array rf and the results hd held: what
\* neither refers to is collected.
Settle(h, rf, hd) ==
  /\ heap' = [a \in Addrs |-> IF a \in Range(rf) \cup Range(hd) THEN h[a] ELSE FreeObject]
  /\ refs' = rf
  /\ held' = hd
  /\ geofences' = [k \in 1..Len(rf) |-> h[rf[k]].val]
  /\ UNCHANGED <<seqVars, concVars>>

HeapPost(body, keep) ==
  /\ Len(refs) < MaxLen
  /\ keep \in 0..1
  /\ LET a == Kth(FreeAddrs(heap), 1)
         h == [heap EXCEPT ![a] =
                 [kind |-> "Geofence",
                  val |-> Geofence(body.id, body.name, body.longitude, body.latitude)]]
     IN Settle(WithDetails(h, <<a>>), Append(refs, a), Kept(Returned(h, <<a>>), keep))

HeapList(keep) ==
  /\ keep \in 1..Len(refs)
  /\ Settle(WithDetails(heap, refs), refs, Kept(Returned(heap, refs), keep))

HeapGet(seg, keep) ==
  LET index == findIndex(geofences, parseInt(seg))
  IN /\ index # -1
     /\ keep = 1
     /\ Settle(WithDetails(heap, <<refs[index + 1]>>), refs,
               Kept(Returned(heap, <<refs[index + 1]>>), keep))

HeapPut(seg, body, keep) ==
  LET index == findIndex(geofences, parseInt(seg))
  IN /\ index # -1
     /\ keep \in 0..1
     /\ LET a == refs[index + 1]
            h == [heap EXCEPT ![a].val.name = body.name,
                              ![a].val.longitude = body.longitude,
                              ![a].val.latitude = body.latitude]
        IN Settle(WithDetails(h, <<a>>), refs, Kept(Returned(h, <<a>>), keep))

HeapDelete(seg) ==
  LET index == findIndex(geofences, parseInt(seg))
  IN /\ index # -1
     /\ Settle(heap, splice(refs, index), held)

\* The receiver of the held result assigns to its name.
Mutate ==
  /\ held # <<>>
  /\ heap[held[1]].val.name # Str("X")
  /\ Settle([heap EXCEPT ![held[1]].val.name = Str("X")], refs, held)

\* The receiver of the held result lets it go.
Drop ==
  /\ held # <<>>
  /\ Settle(heap, refs, <<>>)

(***************************************************************************)
(* The inputs                                                              *)
(***************************************************************************)
\* The name and coordinates of a request body: all present (two variants)
\* or all absent.
BodyFields ==
  { [name |-> Str("A"), longitude |-> Num(10), latitude |-> Num(20)],
    [name |-> Str("B"), longitude |-> Num(30), latitude |-> Num(40)],
    [name |-> Undefined, longitude |-> Undefined, latitude |-> Undefined] }

BodiesWith(ids) ==
  { [id |-> i, name |-> f.name, longitude |-> f.longitude, latitude |-> f.latitude] :
      i \in ids, f \in BodyFields }

\* The bodies of create: the id is an integer or a numeric string.
PostBodies == BodiesWith({Num(1), Num(2), Str("1")})

\* The bodies of update: with no id key, and one that carries an id key.
PutBodies ==
  BodiesWith({Undefined}) \cup
    { [id |-> Num(2), name |-> Str("B"), longitude |-> Num(30), latitude |-> Num(40)] }

\* The {id} segments of the path: the decimal literals of 1 and 2, and two
\* segments that are no decimal literal.
Segs == { IntToSeg(1), IntToSeg(2), <<"a", "b", "c">>, <<"1", "a", "b", "c">> }

Init ==
  /\ geofences = <<>>
  /\ req = NoRequest
  /\ res = NoResponse
  /\ sent = 0
  /\ prev = NoRequest.method
  /\ created = <<>>
  /\ tasks = [c \in Clients |-> IdleTask]
  /\ stack = "none"
  /\ serial = <<>>
  /\ heap = [a \in Addrs |-> FreeObject]
  /\ refs = <<>>
  /\ held = <<>>

Next ==
  \/ \E body \in PostBodies : PostGeofence(body)
  \/ GetGeofences
  \/ \E seg \in Segs : GetGeofenceById(seg)
  \/ \E seg \in Segs, body \in PutBodies : PutGeofenceById(seg, body)
  \/ \E seg \in Segs : DeleteGeofenceById(seg)
  \/ GetRoot
  \/ GetGeofence

Spec == Init /\ [][Next]_vars

(***************************************************************************)
(* The service fed with ids of every JSON type                             *)
(***************************************************************************)
\* The bodies of create: the id is an integer, a numeric string, a number
\* that is no integer, null, or absent.
IdBodies ==
  { [id |-> i, name |-> Str("A"), longitude |-> Num(10), latitude |-> Num(20)] :
      i \in {Num(1), Str("1"), Frac(1), Null, Undefined} }

\* The body of update.
IdPutBodies ==
  { [id |-> Undefined, name |-> Str("B"), longitude |-> Num(30), latitude |-> Num(40)] }

\* The {id} segments: "1", "1.5", "null", "undefined", "NaN".
IdSegs ==
  { <<"1">>, <<"1", ".", "5">>, <<"n", "u", "l", "l">>,
    <<"u", "n", "d", "e", "f", "i", "n", "e", "d">>, <<"N", "a", "N">> }

NextIds ==
  \/ \E body \in IdBodies : PostGeofence(body)
  \/ GetGeofences
  \/ \E seg \in IdSegs : GetGeofenceById(seg)
  \/ \E seg \in IdSegs, body \in IdPutBodies : PutGeofenceById(seg, body)
  \/ \E seg \in IdSegs : DeleteGeofenceById(seg)
  \/ GetRoot
  \/ GetGeofence

SpecIds == Init /\ [][NextIds]_vars

(***************************************************************************)
(* The service with the requests of two clients in flight                  *)
(***************************************************************************)
ConcSegs == {IntToSeg(1), IntToSeg(2)}

\* Creates of the ids 1 and 2, one update body, and the list, get, update
\* and delete of both ids.
ConcRequests ==
  { Request("POST", "/geofence", <<>>,
            [id |-> Num(i), name |-> Str("A"), longitude |-> Num(10), latitude |-> Num(20)]) :
      i \in {1, 2} }
  \cup { Request("GET", "/geofences", <<>>, EmptyBody) }
  \cup { Request("GET", "/geofence/:id", seg, EmptyBody) : seg \in ConcSegs }
  \cup { Request("PUT", "/geofence/:id", seg,
                 [id |-> Undefined, name |-> Str("B"), longitude |-> Num(30),
                  latitude |-> Num(40)]) : seg \in ConcSegs }
  \cup { Request("DELETE", "/geofence/:id", seg, EmptyBody) : seg \in ConcSegs }

NextConc ==
  \/ \E c \in Clients, r \in ConcRequests : Arrive(c, r)
  \/ \E c \in Clients : Start(c)
  \/ \E c \in Clients : Statement(c)
  \/ \E c \in Clients : Send(c)
  \/ \E c \in Clients : Finish(c)

SpecConc == Init /\ [][NextConc]_vars

(***************************************************************************)
(* The service over objects with identity                                  *)
(***************************************************************************)
HeapBodies ==
  { [id |-> Num(i), name |-> Str("A"), longitude |-> Num(10), latitude |-> Num(20)] :
      i \in {1, 2} }

HeapPutBodies ==
  { [id |-> Undefined, name |-> Str("B"), longitude |-> Num(30), latitude |-> Num(40)] }

NextHeap ==
  \/ \E body \in HeapBodies, keep \in 0..MaxLen : HeapPost(body, keep)
  \/ \E keep \in 0..MaxLen : HeapList(keep)
  \/ \E seg \in ConcSegs, keep \in 0..MaxLen : HeapGet(seg, keep)
  \/ \E seg \in ConcSegs, body \in HeapPutBodies, keep \in 0..MaxLen : HeapPut(seg, body, keep)
  \/ \E seg \in ConcSegs : HeapDelete(seg)
  \/ Mutate
  \/ Drop

SpecHeap == Init /\ [][NextHeap]_vars

(***************************************************************************)
(* Vocabulary of the properties                                            *)
(***************************************************************************)
ById(r) == r.route = "/geofence/:id"

\* Response a is response b: status, kind of body, body.
Same(a, b) == a.status = b.status /\ a.kind = b.kind /\ a.body = b.body

\* The integers whose decimal literal is among the path segments.
PathInts == { i \in 0..9 : IntToSeg(i) \in Segs }

\* The positions of arr whose record carries the number i as its id.
Carriers(arr, i) == { k \in 1..Len(arr) : arr[k].id = Num(i) }

\* arr without the element at position k (1-based).
Without(arr, k) == [j \in 1..(Len(arr) - 1) |-> IF j < k THEN arr[j] ELSE arr[j + 1]]

Min(S) == CHOOSE k \in S : \A j \in S : k <= j

IsCreate(r) == r.method = "POST" /\ r.route = "/geofence"

\* The step is create(i, ...) followed at once by get(i).
CreateThenGet(i) ==
  /\ IsCreate(req) /\ req.body.id = Num(i)
  /\ req'.method = "GET" /\ ById(req') /\ req'.seg = IntToSeg(i)

\* C1 as stated: in every reachable store, also one that already holds the
\* id, create(id, name, longitude, latitude) followed at once by get(id)
\* returns exactly the four values passed to create.
C1_RoundTripAnyStore ==
  [][\A i \in PathInts :
       CreateThenGet(i) => Same(res', Response(200, "object", req.body))]_vars

\* C1, amended: when no record stored before the create carries the id,
\* create(id, name, longitude, latitude) followed at once by get on the
\* decimal literal of id answers 200 with exactly the four values passed.
C1_RoundTrip ==
  [][\A i \in PathInts :
       (CreateThenGet(i) /\ Carriers(geofences, i) = {Len(geofences)})
         => Same(res', Response(200, "object", req.body))]_vars

\* A get that follows a create of a fresh id and returns what was created,
\* coordinates included.
C1_Witness ==
  /\ prev = "POST" /\ req.method = "GET" /\ ById(req)
  /\ \E i \in PathInts :
       /\ req.seg = IntToSeg(i)
       /\ Carriers(geofences, i) = {Len(geofences)}
  /\ Same(res, Response(200, "object", getDetails(geofences[Len(geofences)])))
  /\ res.body.longitude = Num(10) /\ res.body.latitude = Num(20)

\* The step is a delete(i) that succeeded followed at once by get(i).
DeleteThenGet(i) ==
  /\ req.method = "DELETE" /\ req.seg = IntToSeg(i) /\ res.status = 204
  /\ req'.method = "GET" /\ ById(req') /\ req'.seg = IntToSeg(i)

\* The step is a delete(i) that succeeds.
DeleteSucceeds(i) ==
  req'.method = "DELETE" /\ req'.seg = IntToSeg(i) /\ res'.status = 204

\* One record is removed; every other record keeps its fields and its place
\* relative to the others.
OthersUnaffected == \E k \in 1..Len(geofences) : geofences' = Without(geofences, k)

\* C2 as stated: a delete(id) that succeeds followed at once by get(id)
\* yields NotFound, and every record other than the removed one keeps its
\* four fields.
C2_DeleteThenNotFoundAnyStore ==
  [][\A i \in PathInts :
       /\ DeleteThenGet(i) => Same(res', NotFound)
       /\ DeleteSucceeds(i) => OthersUnaffected]_vars

\* C2, amended: a delete(id) that succeeds on a store in which exactly one
\* record carries id leaves no record with that id, a get(id) that follows
\* at once yields NotFound exactly when no record carries id any more (with
\* a duplicate left it answers 200 with that record), and every record
\* other than the removed one keeps its four fields.
C2_DeleteRemovesOne ==
  [][\A i \in PathInts :
       /\ DeleteThenGet(i) =>
            IF Carriers(geofences, i) = {}
              THEN Same(res', NotFound)
              ELSE Same(res', Response(200, "object",
                                       getDetails(geofences[Min(Carriers(geofences, i))])))
       /\ DeleteSucceeds(i) =>
            /\ OthersUnaffected
            /\ Cardinality(Carriers(geofences, i)) = 1 => Carriers(geofences', i) = {}]_vars

\* A get answers NotFound right after the delete of the only record with
\* that id, another record staying in the store.
C2_Witness ==
  /\ prev = "DELETE" /\ req.method = "GET" /\ ById(req)
  /\ created = Deleted
  /\ \E i \in PathInts : req.seg = IntToSeg(i) /\ Carriers(geofences, i) = {}
  /\ Same(res, NotFound)
  /\ Len(geofences) >= 1

\* C3: get, update and delete on an integer id that no stored record
\* carries answer NotFound (404, "Geofence not found") and leave the store
\* as it was.
C3_NotFoundSymmetry ==
  [][\A i \in PathInts :
       (/\ ById(req') /\ req'.seg = IntToSeg(i)
        /\ req'.method \in {"GET", "PUT", "DELETE"}
        /\ Carriers(geofences, i) = {})
         => (Same(res', NotFound) /\ geofences' = geofences)]_vars

\* An update answered NotFound on a store that holds the numeric string "1"
\* but not the number 1.
C3_Witness ==
  /\ req.method = "PUT" /\ req.seg = IntToSeg(1)
  /\ Same(res, NotFound)
  /\ Carriers(geofences, 1) = {}
  /\ \E k \in 1..Len(geofences) : geofences[k].id = Str("1")

\* The step is an update(i, ...) that succeeded followed at once by get(i).
UpdateThenGet(i) ==
  /\ req.method = "PUT" /\ req.seg = IntToSeg(i) /\ res.status = 200
  /\ req'.method = "GET" /\ ById(req') /\ req'.seg = IntToSeg(i)

\* C4: on a store that holds a record with the integer id i, update(i,
\* newName, newLon, newLat) succeeds, and a get(i) that follows at once
\* returns id i with name, longitude and latitude equal to the new values,
\* whatever id the update body carries and however many records share i.
C4_UpdatePreservesIdentity ==
  [][\A i \in PathInts :
       /\ (req'.method = "PUT" /\ req'.seg = IntToSeg(i) /\ Carriers(geofences, i) # {})
            => res'.status = 200
       /\ UpdateThenGet(i) =>
            Same(res', Response(200, "object",
                                [id |-> Num(i), name |-> req.body.name,
                                 longitude |-> req.body.longitude,
                                 latitude |-> req.body.latitude]))]_vars

\* A get right after an update, on a store where two records share the id
\* and now differ, returns the updated one with both coordinates.
C4_Witness ==
  /\ prev = "PUT" /\ req.method = "GET" /\ ById(req)
  /\ \E i \in PathInts :
       /\ req.seg = IntToSeg(i)
       /\ Cardinality(Carriers(geofences, i)) = 2
  /\ Len(geofences) = 2
  /\ geofences[1] # geofences[2]
  /\ Same(res, Response(200, "object", getDetails(geofences[1])))
  /\ res.body.longitude = Num(30) /\ res.body.latitude = Num(40)

Distinct(seq) == \A j, k \in 1..Len(seq) : j # k => seq[j] # seq[k]

\* C5: from the empty store, after N >= 0 creates with pairwise distinct
\* ids and no delete, gets, lists and updates interleaved at will, list()
\* returns exactly N records and the k-th carries the id of the k-th create.
C5_ListingReflectsState ==
  (req.route = "/geofences" /\ created # Deleted /\ Distinct(created))
    => /\ res.status = 200 /\ res.kind = "array"
       /\ Len(res.body) = Len(created)
       /\ \A k \in 1..Len(created) : res.body[k].id = created[k]

\* A listing of two records with distinct ids, right after an update.
C5_Witness ==
  /\ req.route = "/geofences" /\ prev = "PUT"
  /\ created # Deleted /\ Distinct(created) /\ Len(created) = 2
  /\ Len(res.body) = 2
  /\ res.body[1].id # res.body[2].id

\* C6 as stated: every request ends in 200, 201 or 204 or in NotFound (404
\* with the message "Geofence not found"); no handler throws, none ends in
\* a 500.
C6_OnlyNotFound ==
  req.method # "NONE" =>
    /\ sent = 1
    /\ res.status \in {200, 201, 204} \/ Same(res, NotFound)

IsSign(c) == c \in {"+", "-"}

\* The segment is no plain integer literal: some character of it is neither
\* a decimal digit nor a sign in the first place.
NotPlainLiteral(seg) ==
  \E k \in 1..Len(seg) : ~IsDigit(seg[k], 10) /\ ~(k = 1 /\ IsSign(seg[k]))

\* C7 as stated: GET, PUT and DELETE on /geofence/{id} with a segment that
\* is no plain integer literal ("abc", "1abc") match no stored record: the
\* answer is 404 and the store is unchanged.
C7_NonNumericMatchesNothing ==
  [][(ById(req') /\ NotPlainLiteral(req'.seg))
       => (res'.status = 404 /\ geofences' = geofences)]_vars

\* The four fields of a stored record.
FourFields(g) ==
  [id |-> g.id, name |-> g.name, longitude |-> g.longitude, latitude |-> g.latitude]

\* C8: POST /geofence answers 201 with the created record; GET /geofences
\* answers 200 with the sequence of records; GET and PUT /geofence/{id} on a
\* stored integer id answer 200 with the (updated) record; DELETE on a
\* stored id answers 204 with an empty body; GET, PUT and DELETE on an id
\* not stored answer 404; and each such request is answered exactly once.
C8_ResponseTable ==
  [][/\ IsCreate(req') =>
          Same(res', Response(201, "object", req'.body)) /\ sent' = 1
     /\ req'.route = "/geofences" =>
          /\ Same(res', Response(200, "array",
                                 [k \in 1..Len(geofences) |-> FourFields(geofences[k])]))
          /\ sent' = 1
     /\ \A i \in PathInts :
          (ById(req') /\ req'.seg = IntToSeg(i)) =>
            /\ sent' = 1
            /\ IF Carriers(geofences, i) = {}
                 THEN res'.status = 404
                 ELSE /\ req'.method = "GET" =>
                           /\ res'.status = 200 /\ res'.kind = "object"
                           /\ \E k \in Carriers(geofences, i) :
                                res'.body = FourFields(geofences[k])
                      /\ req'.method = "PUT" =>
                           Same(res', Response(200, "object",
                                               [id |-> Num(i), name |-> req'.body.name,
                                                longitude |-> req'.body.longitude,
                                                latitude |-> req'.body.latitude]))
                      /\ req'.method = "DELETE" =>
                           Same(res', Response(204, "empty", <<>>))]_vars

\* A delete of a stored id answered 204 with an empty body, once.
C8_Witness ==
  /\ req.method = "DELETE" /\ req.seg \in {IntToSeg(i) : i \in PathInts}
  /\ Same(res, Response(204, "empty", <<>>))
  /\ sent = 1

\* C9: a create with an id already in the store succeeds and appends a
\* second record with that id; while several records share an id, get
\* returns the one at the lowest position, update overwrites only that one
\* and delete removes only that one, every later record staying as it was.
C9_FirstOccurrence ==
  [][\A i \in PathInts :
       /\ (IsCreate(req') /\ req'.body.id = Num(i) /\ Carriers(geofences, i) # {}) =>
            /\ res'.status = 201
            /\ Len(geofences') = Len(geofences) + 1
            /\ \A k \in 1..Len(geofences) : geofences'[k] = geofences[k]
            /\ FourFields(geofences'[Len(geofences')]) = req'.body
       /\ (ById(req') /\ req'.seg = IntToSeg(i)
             /\ Cardinality(Carriers(geofences, i)) >= 2) =>
            LET first == Min(Carriers(geofences, i))
            IN /\ req'.method = "GET" =>
                    Same(res', Response(200, "object", FourFields(geofences[first])))
               /\ req'.method = "PUT" =>
                    /\ Len(geofences') = Len(geofences)
                    /\ \A k \in 1..Len(geofences) :
                         k # first => geofences'[k] = geofences[k]
                    /\ FourFields(geofences'[first]) =
                         [id |-> Num(i), name |-> req'.body.name,
                          longitude |-> req'.body.longitude,
                          latitude |-> req'.body.latitude]
               /\ req'.method = "DELETE" =>
                    geofences' = Without(geofences, first)]_vars

\* A delete succeeded and a later record with the same id is still there.
C9_Witness ==
  /\ req.method = "DELETE" /\ res.status = 204
  /\ \E i \in PathInts : req.seg = IntToSeg(i) /\ Carriers(geofences, i) # {}

\* C10: an update on a stored id overwrites all three of name, longitude
\* and latitude of the matched record with the values of the body, an
\* omitted key with undefined, so the get(id) that follows never returns
\* the previous value of an omitted field.
C10_NoPartialUpdate ==
  [][\A i \in PathInts :
       /\ (req'.method = "PUT" /\ req'.seg = IntToSeg(i) /\ Carriers(geofences, i) # {}) =>
            LET g == geofences'[Min(Carriers(geofences, i))]
            IN /\ g.name = req'.body.name
               /\ g.longitude = req'.body.longitude
               /\ g.latitude = req'.body.latitude
       /\ UpdateThenGet(i) =>
            \A f \in {"name", "longitude", "latitude"} :
              req.body[f] = Undefined => (res'.kind = "object" /\ res'.body[f] = Undefined)]_vars

\* A get right after an update returns a record without name and
\* coordinates, while a later record with the same id still has its own.
C10_Witness ==
  /\ prev = "PUT" /\ req.method = "GET" /\ ById(req)
  /\ res.status = 200 /\ res.kind = "object"
  /\ res.body.name = Undefined
  /\ res.body.longitude = Undefined
  /\ res.body.latitude = Undefined
  /\ Len(geofences) = 2
  /\ geofences[2].id = geofences[1].id
  /\ geofences[2].name # Undefined

\* The ids of the records of arr, in order.
Ids(arr) == [k \in 1..Len(arr) |-> arr[k].id]

\* C11: a successful update(id, ...) changes only the name, longitude and
\* latitude of the single matched record: the length of the store, the
\* order of the records, the id of every record and all fields of every
\* other record stay.  So no step of any operation changes the id of a
\* record that stays in the store, and while nothing was deleted the ids in
\* the store are the ids passed to create, in order.
C11_UpdateFrame ==
  [][/\ (req'.method = "PUT" /\ res'.status = 200) =>
          /\ Len(geofences') = Len(geofences)
          /\ Ids(geofences') = Ids(geofences)
          /\ \A k \in 1..Len(geofences) : geofences'[k]._stream = geofences[k]._stream
          /\ \E m \in 1..Len(geofences) :
               \A k \in 1..Len(geofences) : k # m => geofences'[k] = geofences[k]
     /\ Len(geofences') >= Len(geofences) =>
          \A k \in 1..Len(geofences) : geofences'[k].id = geofences[k].id
     /\ Len(geofences') < Len(geofences) =>
          \E p \in 1..Len(geofences) : Ids(geofences') = Without(Ids(geofences), p)
     /\ created' # Deleted => Ids(geofences') = created']_vars

\* An update whose body carries the id 2 succeeded on the record with id 1,
\* which still has id 1 and now the name and coordinates of the body; the
\* other record is in the store too.
C11_Witness ==
  /\ req.method = "PUT" /\ req.seg = IntToSeg(1) /\ req.body.id = Num(2)
  /\ res.status = 200 /\ res.kind = "object"
  /\ res.body.id = Num(1) /\ res.body.name = req.body.name
  /\ Len(geofences) = 2
  /\ created = <<Num(1), Num(2)>>

C14_OnlyWritesMutate ==
  [][/\ req'.method = "GET" => geofences' = geofences
     /\ Len(geofences') > Len(geofences) =>
          /\ IsCreate(req')
          /\ Len(geofences') = Len(geofences) + 1
          /\ SubSeq(geofences', 1, Len(geofences)) = geofences
          /\ FourFields(geofences'[Len(geofences')]) = req'.body
     /\ Len(geofences') < Len(geofences) =>
          /\ req'.method = "DELETE" /\ res'.status = 204
          /\ Len(geofences') = Len(geofences) - 1
     /\ geofences' # geofences => req'.method \in {"POST", "PUT", "DELETE"}]_vars

\* GET /geofence was answered, with its error, on a store of two records
\* built by two creates.
C14_Witness ==
  /\ req.method = "GET" /\ req.route = "/geofence" /\ res.status = 500
  /\ Len(geofences) = 2
  /\ created # Deleted /\ Len(created) = 2

\* The value is no integer number.
NonInteger(v) == v.t # "number"

HasNonIntegerId(g) == NonInteger(g.id)

\* The records of arr whose id is no integer, in order.
Stuck(arr) == SelectSeq(arr, HasNonIntegerId)

\* C16: a record created with an id that is no integer number (a numeric
\* string, a number that is no integer, null, no id) is accepted by create
\* and listed by list(), and no get, update or delete with whatever path id
\* matches it: every by-id request that matches addresses a record with an
\* integer id, and no step changes or removes such a record.
C16_NonIntegerIdUnreachable ==
  [][/\ (IsCreate(req') /\ NonInteger(req'.body.id)) =>
          /\ res'.status = 201
          /\ FourFields(geofences'[Len(geofences')]) = req'.body
     /\ req'.route = "/geofences" =>
          /\ res'.kind = "array" /\ Len(res'.body) = Len(geofences)
          /\ \A k \in 1..Len(geofences) :
               NonInteger(geofences[k].id) => res'.body[k] = FourFields(geofences[k])
     /\ (ById(req') /\ res'.status = 200) =>
          (res'.kind = "object" /\ ~NonInteger(res'.body.id))
     /\ ById(req') => Stuck(geofences') = Stuck(geofences)
     /\ Len(Stuck(geofences')) >= Len(Stuck(geofences))
     /\ SubSeq(Stuck(geofences'), 1, Len(Stuck(geofences))) = Stuck(geofences)]_vars

\* A delete on the path 1.5 answered NotFound on a store that holds the
\* record with id 1.5 and the record with the id "1".
C16_Witness ==
  /\ req.method = "DELETE" /\ req.seg = <<"1", ".", "5">>
  /\ Same(res, NotFound)
  /\ Len(geofences) = 2
  /\ geofences[1].id = Frac(1)
  /\ geofences[2].id = Str("1")

\* The response the handler of request r gives when it runs on arr as a whole.
Reply(arr, r) ==
  LET index == findIndex(arr, parseInt(r.seg))
  IN IF r.method = "POST"
       THEN Response(201, "object",
                     getDetails(Geofence(r.body.id, r.body.name, r.body.longitude,
                                         r.body.latitude)))
     ELSE IF r.route = "/geofences" THEN Response(200, "array", mapDetails(arr))
     ELSE IF index = -1 THEN NotFound
     ELSE IF r.method = "DELETE" THEN Response(204, "empty", <<>>)
     ELSE IF r.method = "PUT"
       THEN Response(200, "object",
                     getDetails(assign(arr, index, r.body.name, r.body.longitude,
                                       r.body.latitude)[index + 1]))
     ELSE Response(200, "object", getDetails(arr[index + 1]))

\* The name and the coordinates of d come from one request body.
Whole(d) ==
  <<d.name, d.longitude, d.latitude>> \in
    { <<r.body.name, r.body.longitude, r.body.latitude>> :
        r \in { q \in ConcRequests : q.method \in {"POST", "PUT"} } }

\* No record a get or list response shows is half updated.
ShowsWhole(response) ==
  /\ response.kind = "object" /\ response.status = 200 => Whole(response.body)
  /\ response.kind = "array" =>
       \A k \in 1..Len(response.body) : Whole(response.body[k])

(***************************************************************************)
(* C13.  Handler atomicity under concurrent requests.  With the requests   *)
(* of several clients in flight and the event loop free to start the       *)
(* queued handlers in any order: at most one handler is between its first  *)
(* statement and its response at any time; whenever none is, the store is  *)
(* the one obtained by running the handlers that responded so far one      *)
(* after another, whole, in the order of their responses; every response   *)
(* is the one its handler gives when run whole at its place in that order, *)
(* and shows no record with the name of one body and the coordinates of    *)
(* another; and while an update assigns or a delete is about to splice,    *)
(* the position it holds is still the first record of the requested id.    *)
(***************************************************************************)
C13_HandlersAtomic ==
  [][ /\ Cardinality({ c \in Clients : tasks'[c].pc \in Mid }) <= 1
      /\ (\A c \in Clients : tasks'[c].pc \notin Mid) => geofences' = serial'
      /\ \A c \in Clients :
           /\ tasks[c].pc = "send" /\ tasks'[c].pc = "done" =>
                /\ Same(tasks'[c].out, Reply(serial, tasks[c].req))
                /\ ShowsWhole(tasks'[c].out)
           /\ tasks'[c].pc \in {"name", "longitude", "latitude", "splice"} =>
                /\ tasks'[c].ref >= 0
                /\ tasks'[c].ref = findIndex(geofences', parseInt(tasks'[c].req.seg)) ]_vars

\* An update of id 1 has assigned the name and not yet the coordinates
\* while a get of id 1 from the other client waits for the event loop.
C13_Witness ==
  \E c \in Clients, d \in Clients :
    /\ c # d
    /\ tasks[c].req.method = "PUT" /\ tasks[c].pc = "longitude"
    /\ tasks[c].ref >= 0
    /\ geofences[tasks[c].ref + 1].name = tasks[c].req.body.name
    /\ geofences[tasks[c].ref + 1].longitude # tasks[c].req.body.longitude
    /\ tasks[d].req.method = "GET" /\ tasks[d].pc = "queued"
    /\ tasks[d].req.seg = tasks[c].req.seg

(***************************************************************************)
(* C15.  Snapshots are detached.  The object a create, get, list or update *)
(* hands to its receiver is a new object, none of the array's, holding the *)
(* four fields of a stored record as they are when the handler returns; a  *)
(* step that changes the array or a stored record (a later update, delete  *)
(* or create) leaves the held object as it was; a step that changes the    *)
(* held object leaves the array and every stored record as they were, so   *)
(* no record ever shows what a receiver assigned.                          *)
(***************************************************************************)
C15_SnapshotsDetached ==
  [][ /\ Range(held') \cap Range(refs') = {}
      /\ held' # held /\ held' # <<>> =>
           /\ heap[held'[1]].kind = "free"
           /\ heap'[held'[1]].kind = "details"
           /\ \E k \in 1..Len(geofences') : heap'[held'[1]].val = getDetails(geofences'[k])
      /\ held' = held /\ held # <<>> /\ (refs' # refs \/ geofences' # geofences) =>
           heap'[held[1]] = heap[held[1]]
      /\ held' = held /\ held # <<>> /\ heap'[held[1]] # heap[held[1]] =>
           /\ refs' = refs
           /\ geofences' = geofences
           /\ \A k \in 1..Len(refs) : heap'[refs[k]] = heap[refs[k]]
      /\ \A k \in 1..Len(geofences') :
           /\ geofences'[k] = heap'[refs'[k]].val
           /\ geofences'[k].name # Str("X") ]_vars

\* The held object still shows the name record 1 had when it was returned,
\* after an update renamed the record and the receiver assigned nothing.
C15_Witness ==
  /\ held # <<>>
  /\ heap[held[1]].val.id = Num(1)
  /\ heap[held[1]].val.name = Str("A")
  /\ \E k \in 1..Len(geofences) :
       /\ geofences[k].id = Num(1)
       /\ geofences[k].name = Str("B")
       /\ geofences[k].longitude = Num(30)

====
